---- MODULE Spec2Model ----
(***************************************************************************)
(* ArbitraryMutation (src/src/ArbitraryMutation.ts): for every schema node *)
(* a pair {mutation, arbitrary} of generators.  A generator is modelled by *)
(* its support: the finite set of values a draw can return.  oneof is set  *)
(* union, constant a singleton, filter a set filter, map/chain the image   *)
(* over every choice.  A state is a schema node together with the last     *)
(* value drawn from one of the two generators built for it.                *)
(***************************************************************************)
EXTENDS Integers, Sequences, FiniteSets, TLC

\* Longest array / largest dictionary the generation engine produces.
MaxLen == 2
\* Number of times a lazy thunk is unfolded before the engine's size bound
\* stops generating.
MaxDepth == 2

-----------------------------------------------------------------------------
(* JavaScript values.                                                      *)

\* a value is <<kind, payload>>
Str(s) == <<"string", s>>
Num(n) == <<"number", n>>
Bool(b) == <<"boolean", b>>
Null == <<"null", 0>>
\* an array: the payload is a sequence of values
Arr(xs) == <<"array", xs>>
\* a plain object: the payload is a function from its own keys to values
Obj(f) == <<"object", f>>
\* typeof / Array.isArray / null test of a value, and its payload
kindOf(u) == u[1]
payload(u) == u[2]

-----------------------------------------------------------------------------
(* The generator engine and ./Arbitrary, as supports.                      *)

SeqsUpTo(S, n) == UNION {[1..m -> S] : m \in 0..n}

Dicts(K, S, n) == UNION {[D -> S] : D \in {E \in SUBSET K : Cardinality(E) <= n}}

\* functions f on K with f[x] in choices[x]
Products(K, choices) ==
  {f \in [K -> UNION {choices[x] : x \in K}] : \A x \in K : f[x] \in choices[x]}

A_string == {Str("a"), Str("b")}
A_number == {Num(0), Num(1)}
A_boolean == {Bool(TRUE), Bool(FALSE)}
anything == {Null, Num(0)}
dictionaryKeys == {payload(s) : s \in A_string}
A_UnknownArray == {Arr(xs) : xs \in SeqsUpTo(anything, MaxLen)}
A_UnknownRecord == {Obj(f) : f \in Dicts(dictionaryKeys, anything, MaxLen)}

A_literal(values) == values
A_union(members) == UNION {members[i] : i \in DOMAIN members}
A_type(arbitraries) == {Obj(f) : f \in Products(DOMAIN arbitraries, arbitraries)}
A_partial(arbitraries) ==
  UNION {{Obj(f) : f \in Products(D, arbitraries)} : D \in SUBSET DOMAIN arbitraries}
A_record(codomain) == {Obj(f) : f \in Dicts(dictionaryKeys, codomain, MaxLen)}
A_array(items) == {Arr(xs) : xs \in SeqsUpTo(items, MaxLen)}
A_tuple(components) == {Arr(xs) : xs \in Products(DOMAIN components, components)}

\* the structural merge of two values: the keys of both, the right one
\* winning on a common key; a non-object right operand replaces the left one
intersect(a, b) ==
  IF kindOf(a) = "object" /\ kindOf(b) = "object" THEN Obj(payload(b) @@ payload(a)) ELSE b

A_intersection(left, right) == {intersect(a, b) : a \in left, b \in right}
A_sum(tag, members) == UNION {members[t] : t \in DOMAIN members}
A_lazy(g) == g

-----------------------------------------------------------------------------
(* ./Guard: what a decoder accepts.                                        *)

guard_literal_is(values, u) == u \in values

-----------------------------------------------------------------------------
(* ArbitraryMutation.ts: constructors and primitives.                      *)

make(mutation, arbitrary) == [mutation |-> mutation, arbitrary |-> arbitrary]

literalsArbitrary == A_union(<<A_string, A_number, A_boolean, {Null}>>)

\* literal without the filter that excludes the allowed values
literal_unfiltered(values) ==
  make(literalsArbitrary, A_literal(values))

literal(values) ==
  make({u \in literalsArbitrary : ~guard_literal_is(values, u)}, A_literal(values))

string == make(A_number \cup A_boolean, A_string)

number == make(A_string \cup A_boolean, A_number)

boolean ==
  make(A_string \cup A_number \cup {Str("true"), Str("false"), Str("0"), Str("1")},
       A_boolean)

UnknownArray == make(A_UnknownRecord, A_UnknownArray)

UnknownRecord == make(A_UnknownArray, A_UnknownRecord)

-----------------------------------------------------------------------------
(* ArbitraryMutation.ts: combinators.  A combinator takes the pairs built  *)
(* for its children.                                                       *)

nullMutation == make({Obj(<<>>)}, {Null})

union(members) ==
  LET mutations == [i \in DOMAIN members |-> members[i].mutation]
      arbitraries == [i \in DOMAIN members |-> members[i].arbitrary]
  IN  make(A_union(mutations), A_union(arbitraries))

nullable(or) == union(<<nullMutation, or>>)

\* { ...a, [key]: m }
spread(a, key, m) == Obj((key :> m) @@ payload(a))

\* typeChain with m drawn from the chosen field's arbitrary instead of its
\* mutation
typeChain_validReplacement(properties) ==
  LET keys == DOMAIN properties
      arbitrary == A_type([k \in keys |-> properties[k].arbitrary])
  IN  UNION {{[a |-> a, key |-> Str(key), m |-> m, out |-> spread(a, key, m)] :
                a \in arbitrary, m \in properties[key].arbitrary} : key \in keys}

\* arbitrary.chain(a => key.chain(key => mutations[key].map(m => f(a, key, m)))):
\* every choice of a, key and m, with the value the choice maps to
typeChain(properties) ==
  LET keys == DOMAIN properties
      arbitrary == A_type([k \in keys |-> properties[k].arbitrary])
  IN  UNION {{[a |-> a, key |-> Str(key), m |-> m, out |-> spread(a, key, m)] :
                a \in arbitrary, m \in properties[key].mutation} : key \in keys}

\* type whose mutation for no declared field is the empty object
type_sameWhenEmpty(properties) ==
  LET keys == DOMAIN properties
  IN  IF Cardinality(keys) = 0
        THEN make({Obj(<<>>)}, {Obj(<<>>)})
        ELSE make({c.out : c \in typeChain(properties)},
                  A_type([k \in keys |-> properties[k].arbitrary]))

type(properties) ==
  LET keys == DOMAIN properties
  IN  IF Cardinality(keys) = 0
        THEN make({Arr(<<>>)}, {Obj(<<>>)})
        ELSE make({c.out : c \in typeChain(properties)},
                  A_type([k \in keys |-> properties[k].arbitrary]))

nonEmpty(o) == Cardinality(DOMAIN payload(o)) > 0

\* partialChain without filter(nonEmpty) on the drawn valid instance
partialChain_unfiltered(properties) ==
  LET keys == DOMAIN properties
      arbitrary == A_partial([k \in keys |-> properties[k].arbitrary])
  IN  UNION {{[a |-> a, key |-> Str(key), m |-> m, out |-> spread(a, key, m)] :
                a \in arbitrary, m \in properties[key].mutation} : key \in keys}

partialChain(properties) ==
  LET keys == DOMAIN properties
      arbitrary == A_partial([k \in keys |-> properties[k].arbitrary])
  IN  UNION {{[a |-> a, key |-> Str(key), m |-> m, out |-> spread(a, key, m)] :
                a \in {x \in arbitrary : nonEmpty(x)},
                m \in properties[key].mutation} : key \in keys}

partial(properties) ==
  LET keys == DOMAIN properties
  IN  IF Cardinality(keys) = 0
        THEN make({Arr(<<>>)}, {Obj(<<>>)})
        ELSE make({c.out : c \in partialChain(properties)},
                  A_partial([k \in keys |-> properties[k].arbitrary]))

record(codomain) ==
  make({o \in A_record(codomain.mutation) : nonEmpty(o)}, A_record(codomain.arbitrary))

isNonEmpty(as) == Len(payload(as)) > 0

array(items) ==
  make({as \in A_array(items.mutation) : isNonEmpty(as)}, A_array(items.arbitrary))

\* fp-ts unsafeUpdateAt: a copy of the array with position i (from 0) set to m
unsafeUpdateAt(i, m, t) == Arr([payload(t) EXCEPT ![i + 1] = m])

\* tupleChain with m drawn from the mutation of the next component
tupleChain_wrongSlot(components) ==
  LET arbitrary == A_tuple([i \in DOMAIN components |-> components[i].arbitrary])
  IN  UNION {{[a |-> t, key |-> Num(i), m |-> m, out |-> unsafeUpdateAt(i, m, t)] :
                t \in arbitrary,
                m \in components[((i + 1) % Len(components)) + 1].mutation} :
             i \in 0..(Len(components) - 1)}

tupleChain(components) ==
  LET arbitrary == A_tuple([i \in DOMAIN components |-> components[i].arbitrary])
  IN  UNION {{[a |-> t, key |-> Num(i), m |-> m, out |-> unsafeUpdateAt(i, m, t)] :
                t \in arbitrary, m \in components[i + 1].mutation} :
             i \in 0..(Len(components) - 1)}

tuple(components) ==
  LET arbitrary == A_tuple([i \in DOMAIN components |-> components[i].arbitrary])
  IN  IF Len(components) = 0
        THEN make({Obj(<<>>)}, arbitrary)
        ELSE make({c.out : c \in tupleChain(components)}, arbitrary)

intersection(left, right) ==
  make(A_intersection(left.mutation, right.mutation),
       A_intersection(left.arbitrary, right.arbitrary))

\* sum whose mutation is built from the members' arbitraries
sum_arbitraries(tag, members) ==
  LET arbitraries == [t \in DOMAIN members |-> members[t].arbitrary]
  IN  make(A_sum(tag, arbitraries), A_sum(tag, arbitraries))

sum(tag, members) ==
  LET mutations == [t \in DOMAIN members |-> members[t].mutation]
      arbitraries == [t \in DOMAIN members |-> members[t].arbitrary]
  IN  make(A_sum(tag, mutations), A_sum(tag, arbitraries))

\* f is the pair the thunk returns when it is called
lazy(f) == make(A_lazy(f.mutation), A_lazy(f.arbitrary))

-----------------------------------------------------------------------------
(* Schema nodes (./Schemable): what the builders are applied to.           *)

S_literal(values) == [kind |-> "literal", values |-> values]
S_string == [kind |-> "string"]
S_number == [kind |-> "number"]
S_boolean == [kind |-> "boolean"]
S_UnknownArray == [kind |-> "UnknownArray"]
S_UnknownRecord == [kind |-> "UnknownRecord"]
S_nullable(or) == [kind |-> "nullable", or |-> or]
S_type(properties) == [kind |-> "type", properties |-> properties]
S_partial(properties) == [kind |-> "partial", properties |-> properties]
S_record(codomain) == [kind |-> "record", codomain |-> codomain]
S_array(items) == [kind |-> "array", items |-> items]
S_tuple(components) == [kind |-> "tuple", components |-> components]
S_intersection(left, right) == [kind |-> "intersection", left |-> left, right |-> right]
S_sum(tag, members) == [kind |-> "sum", tag |-> tag, members |-> members]
S_lazy(f) == [kind |-> "lazy", f |-> f]
S_union(members) == [kind |-> "union", members |-> members]

\* the thunks of the self-referential schemas: List = null | { next: List }
LazyDef(f) ==
  CASE f = "List" -> S_nullable(S_type("next" :> S_lazy("List")))

\* the schema trees the builders are applied to
Schemas ==
  LET A   == S_type("a" :> S_string)
      B   == S_type("b" :> S_number)
      AB  == S_type(("a" :> S_string) @@ ("b" :> S_number))
      SN  == S_union(<<S_string, S_number>>)
      TA  == S_type(("_tag" :> S_literal({Str("a")})) @@ ("a" :> S_string))
      TB  == S_type(("_tag" :> S_literal({Str("b")})) @@ ("b" :> S_number))
      XA  == S_type(("_tag" :> S_literal({Str("a")})) @@ ("x" :> S_string))
      XB  == S_type(("_tag" :> S_literal({Str("b")})) @@ ("x" :> S_string))
  IN  { S_literal({Num(1), Str("a"), Bool(TRUE)}), S_literal({Null}),
        S_string, S_number, S_boolean, S_UnknownArray, S_UnknownRecord,
        S_nullable(S_string), S_nullable(S_UnknownRecord), S_nullable(AB),
        S_type(<<>>), A, AB,
        S_type(("a" :> S_array(S_string)) @@ ("b" :> S_tuple(<<S_string, S_number>>))),
        S_type(("a" :> S_nullable(S_string)) @@ ("b" :> S_boolean)),
        S_partial(<<>>), S_partial("a" :> S_boolean),
        S_partial(("a" :> S_string) @@ ("b" :> S_number)),
        S_record(S_number), S_record(S_string), S_record(SN),
        S_array(S_string), S_array(S_boolean), S_array(SN), S_array(A),
        S_tuple(<<>>), S_tuple(<<S_boolean>>), S_tuple(<<S_string, S_number>>),
        S_tuple(<<S_string, S_number, AB>>),
        S_intersection(A, B), S_intersection(A, AB), S_intersection(AB, A),
        S_intersection(S_type("a" :> S_literal({Str("a")})), A),
        S_intersection(S_partial("a" :> S_string), B),
        S_sum("_tag", ("a" :> TA) @@ ("b" :> TB)),
        S_sum("_tag", ("a" :> XA) @@ ("b" :> XB)),
        S_lazy("List"),
        SN, S_union(<<A, B>>), S_union(<<S_boolean, S_array(S_string)>>) }

-----------------------------------------------------------------------------
(* The Schemable instance: each node kind bound to its builder.  d is the  *)
(* number of lazy unfoldings left; with none left nothing is generated.    *)

RECURSIVE arbitraryMutation(_, _)
arbitraryMutation(s, d) ==
  CASE s.kind = "literal" -> literal(s.values)
    [] s.kind = "string" -> string
    [] s.kind = "number" -> number
    [] s.kind = "boolean" -> boolean
    [] s.kind = "UnknownArray" -> UnknownArray
    [] s.kind = "UnknownRecord" -> UnknownRecord
    [] s.kind = "nullable" -> nullable(arbitraryMutation(s.or, d))
    [] s.kind = "type" ->
         type([k \in DOMAIN s.properties |-> arbitraryMutation(s.properties[k], d)])
    [] s.kind = "partial" ->
         partial([k \in DOMAIN s.properties |-> arbitraryMutation(s.properties[k], d)])
    [] s.kind = "record" -> record(arbitraryMutation(s.codomain, d))
    [] s.kind = "array" -> array(arbitraryMutation(s.items, d))
    [] s.kind = "tuple" ->
         tuple([i \in DOMAIN s.components |-> arbitraryMutation(s.components[i], d)])
    [] s.kind = "intersection" ->
         intersection(arbitraryMutation(s.left, d), arbitraryMutation(s.right, d))
    [] s.kind = "sum" ->
         sum(s.tag, [t \in DOMAIN s.members |-> arbitraryMutation(s.members[t], d)])
    [] s.kind = "lazy" ->
         IF d = 0 THEN make({}, {}) ELSE lazy(arbitraryMutation(LazyDef(s.f), d - 1))
    [] s.kind = "union" ->
         union([i \in DOMAIN s.members |-> arbitraryMutation(s.members[i], d)])

\* the pairs built for the children of a type, partial or tuple node
children(s) ==
  IF s.kind = "tuple"
    THEN [i \in DOMAIN s.components |-> arbitraryMutation(s.components[i], MaxDepth)]
    ELSE [k \in DOMAIN s.properties |-> arbitraryMutation(s.properties[k], MaxDepth)]

\* whether value u is a valid instance of schema s (the guard of s)
RECURSIVE is(_, _)
is(s, u) ==
  CASE s.kind = "literal" -> guard_literal_is(s.values, u)
    [] s.kind = "string" -> kindOf(u) = "string"
    [] s.kind = "number" -> kindOf(u) = "number"
    [] s.kind = "boolean" -> kindOf(u) = "boolean"
    [] s.kind = "UnknownArray" -> kindOf(u) = "array"
    [] s.kind = "UnknownRecord" -> kindOf(u) = "object"
    [] s.kind = "nullable" -> u = Null \/ is(s.or, u)
    [] s.kind = "type" ->
         /\ kindOf(u) = "object"
         /\ \A k \in DOMAIN s.properties :
              k \in DOMAIN payload(u) /\ is(s.properties[k], payload(u)[k])
    [] s.kind = "partial" ->
         /\ kindOf(u) = "object"
         /\ \A k \in DOMAIN s.properties \cap DOMAIN payload(u) : is(s.properties[k], payload(u)[k])
    [] s.kind = "record" ->
         kindOf(u) = "object" /\ \A k \in DOMAIN payload(u) : is(s.codomain, payload(u)[k])
    [] s.kind = "array" ->
         kindOf(u) = "array" /\ \A i \in DOMAIN payload(u) : is(s.items, payload(u)[i])
    [] s.kind = "tuple" ->
         /\ kindOf(u) = "array"
         /\ Len(payload(u)) = Len(s.components)
         /\ \A i \in DOMAIN s.components : is(s.components[i], payload(u)[i])
    [] s.kind = "intersection" -> is(s.left, u) /\ is(s.right, u)
    [] s.kind = "sum" ->
         /\ kindOf(u) = "object"
         /\ s.tag \in DOMAIN payload(u)
         /\ \E t \in DOMAIN s.members : payload(u)[s.tag] = Str(t) /\ is(s.members[t], u)
    [] s.kind = "lazy" -> is(LazyDef(s.f), u)
    [] s.kind = "union" -> \E i \in DOMAIN s.members : is(s.members[i], u)

-----------------------------------------------------------------------------
(* The state: a schema node, and the last draw from its pair.              *)

VARIABLES node, src, sample, via

vars == <<node, src, sample, via>>

\* no choice of (a, key, m) was recorded for the draw
NoChoice == [a |-> Null, key |-> Null, m |-> Null, out |-> Null]

Init ==
  /\ node \in Schemas
  /\ src = "none"
  /\ sample = Null
  /\ via = NoChoice

\* one draw from the mutation or from the arbitrary of the pair built for
\* node; draws are independent, so a run is the construction and one draw
Draw(kind) ==
  /\ node.kind = kind
  /\ src = "none"
  /\ \E g \in {"mutation", "arbitrary"} :
       \E x \in arbitraryMutation(node, MaxDepth)[g] :
         /\ sample' = x
         /\ src' = g
  /\ via' = NoChoice
  /\ UNCHANGED node

\* one draw of a single-fault node: the choice of a, key and m behind a
\* mutation is kept in via
DrawChain(kind, chain) ==
  /\ node.kind = kind
  /\ src = "none"
  /\ \E pair \in {arbitraryMutation(node, MaxDepth)} :
       \E g \in {"mutation", "arbitrary"} :
         IF g = "mutation" /\ chain # {}
           THEN \E c \in chain :
                  /\ c.out \in pair.mutation
                  /\ sample' = c.out
                  /\ src' = g
                  /\ via' = c
           ELSE \E x \in pair[g] :
                  /\ sample' = x
                  /\ src' = g
                  /\ via' = NoChoice
  /\ UNCHANGED node

Draw_literal == node.kind = "literal" /\ Draw("literal")
Draw_string == node.kind = "string" /\ Draw("string")
Draw_number == node.kind = "number" /\ Draw("number")
Draw_boolean == node.kind = "boolean" /\ Draw("boolean")
Draw_UnknownArray == node.kind = "UnknownArray" /\ Draw("UnknownArray")
Draw_UnknownRecord == node.kind = "UnknownRecord" /\ Draw("UnknownRecord")
Draw_nullable == node.kind = "nullable" /\ Draw("nullable")
Draw_type == node.kind = "type" /\ DrawChain("type", typeChain(children(node)))
Draw_partial == node.kind = "partial" /\ DrawChain("partial", partialChain(children(node)))
Draw_record == node.kind = "record" /\ Draw("record")
Draw_array == node.kind = "array" /\ Draw("array")
Draw_tuple == node.kind = "tuple" /\ DrawChain("tuple", tupleChain(children(node)))
Draw_intersection == node.kind = "intersection" /\ Draw("intersection")
Draw_sum == node.kind = "sum" /\ Draw("sum")
Draw_lazy == node.kind = "lazy" /\ Draw("lazy")
Draw_union == node.kind = "union" /\ Draw("union")

Next ==
  \/ Draw_literal
  \/ Draw_string
  \/ Draw_number
  \/ Draw_boolean
  \/ Draw_UnknownArray
  \/ Draw_UnknownRecord
  \/ Draw_nullable
  \/ Draw_type
  \/ Draw_partial
  \/ Draw_record
  \/ Draw_array
  \/ Draw_tuple
  \/ Draw_intersection
  \/ Draw_sum
  \/ Draw_lazy
  \/ Draw_union

Spec == Init /\ [][Next]_vars

-----------------------------------------------------------------------------
(* Properties.                                                             *)

\* the pair built for schema s
pairOf(s) == arbitraryMutation(s, MaxDepth)

\* no draw from the mutation of s is a valid instance of s
neverValid(s) == \A u \in pairOf(s).mutation : ~is(s, u)

\* the declared fields of an object value u that hold no valid value
invalidFields(properties, u) ==
  {k \in DOMAIN properties : ~is(properties[k], payload(u)[k])}

\* the positions of an array value u that hold no valid value
invalidPositions(components, u) ==
  {i \in DOMAIN components : ~is(components[i], payload(u)[i])}

\* C1: a mutation of type(properties), properties non-empty and no child
\* mutation ever valid for its child, has exactly the declared keys and
\* exactly one field that is not valid for its declared kind.
C1_TypeSingleFault ==
  ( /\ node.kind = "type"
    /\ src = "mutation"
    /\ DOMAIN node.properties # {}
    /\ \A k \in DOMAIN node.properties : neverValid(node.properties[k]) )
  => /\ kindOf(sample) = "object"
     /\ DOMAIN payload(sample) = DOMAIN node.properties
     /\ Cardinality(invalidFields(node.properties, sample)) = 1

\* C1 witness: a mutation of type({a: string, b: number}) whose field a is
\* corrupted and whose field b is valid.
C1_Witness ==
  /\ node = S_type(("a" :> S_string) @@ ("b" :> S_number))
  /\ src = "mutation"
  /\ via.key = Str("a")
  /\ ~is(S_string, payload(sample)["a"])
  /\ is(S_number, payload(sample)["b"])

\* C2: a mutation of tuple(components), arity >= 1 and no component mutation
\* ever valid for its component, has the arity of the tuple and exactly one
\* position that is not valid for its slot.
C2_TupleSingleFault ==
  ( /\ node.kind = "tuple"
    /\ src = "mutation"
    /\ Len(node.components) >= 1
    /\ \A i \in DOMAIN node.components : neverValid(node.components[i]) )
  => /\ kindOf(sample) = "array"
     /\ Len(payload(sample)) = Len(node.components)
     /\ Cardinality(invalidPositions(node.components, sample)) = 1

\* C2 witness: a mutation of tuple(string, number) whose second position is
\* corrupted and whose first position is valid.
C2_Witness ==
  /\ node = S_tuple(<<S_string, S_number>>)
  /\ src = "mutation"
  /\ via.key = Num(1)
  /\ is(S_string, payload(sample)[1])
  /\ ~is(S_number, payload(sample)[2])

\* C3: a mutation of array(items) or record(codomain) is non-empty, every
\* element / entry value is a draw from the child's mutation, and no element
\* is valid for the child.
C3_ContainerAllCorrupted ==
  /\ (node.kind = "array" /\ src = "mutation")
       => /\ kindOf(sample) = "array"
          /\ Len(payload(sample)) > 0
          /\ \A i \in DOMAIN payload(sample) :
               /\ payload(sample)[i] \in pairOf(node.items).mutation
               /\ ~is(node.items, payload(sample)[i])
  /\ (node.kind = "record" /\ src = "mutation")
       => /\ kindOf(sample) = "object"
          /\ DOMAIN payload(sample) # {}
          /\ \A k \in DOMAIN payload(sample) :
               /\ payload(sample)[k] \in pairOf(node.codomain).mutation
               /\ ~is(node.codomain, payload(sample)[k])

\* C4: a mutation of intersection(left, right) is valid neither for left
\* nor for right.
C4_IntersectionFailsBoth ==
  (node.kind = "intersection" /\ src = "mutation")
  => ~is(node.left, sample) /\ ~is(node.right, sample)

\* C5: no draw from the mutation of a node is a valid instance of the node.
C5_MutationNeverValid ==
  src = "mutation" => ~is(node, sample)

\* C6: every draw from the arbitrary of a node is a valid instance of the
\* node, and for a type node it has exactly the declared keys.
C6_ArbitraryValid ==
  src = "arbitrary"
  => /\ is(node, sample)
     /\ node.kind = "type" => DOMAIN payload(sample) = DOMAIN node.properties

\* C7 as stated: a mutation of sum(tag)(members) carries the tag field with
\* one of the declared tags as its value.
C7_SumKeepsDeclaredTag ==
  (node.kind = "sum" /\ src = "mutation")
  => /\ kindOf(sample) = "object"
     /\ node.tag \in DOMAIN payload(sample)
     /\ payload(sample)[node.tag] \in {Str(t) : t \in DOMAIN node.members}

\* C7 amended: a mutation of sum(tag)(members), members being type nodes that
\* declare the tag and whose fields' mutations are never valid for the field,
\* is a draw from the mutation of one member: it has that member's keys, the
\* tag field among them, and exactly one field that is not valid for the
\* member; that field may be the tag itself.
C7_SumMemberMutation ==
  ( /\ node.kind = "sum"
    /\ src = "mutation"
    /\ \A t \in DOMAIN node.members :
         /\ node.members[t].kind = "type"
         /\ node.tag \in DOMAIN node.members[t].properties
         /\ \A k \in DOMAIN node.members[t].properties :
              neverValid(node.members[t].properties[k]) )
  => /\ kindOf(sample) = "object"
     /\ node.tag \in DOMAIN payload(sample)
     /\ \E t \in DOMAIN node.members :
          /\ sample \in pairOf(node.members[t]).mutation
          /\ DOMAIN payload(sample) = DOMAIN node.members[t].properties
          /\ Cardinality(invalidFields(node.members[t].properties, sample)) = 1

\* C7 witness: a mutation of a sum whose tag field holds no declared tag.
C7_Witness ==
  /\ node.kind = "sum"
  /\ src = "mutation"
  /\ node.tag \in DOMAIN payload(sample)
  /\ payload(sample)[node.tag] \notin {Str(t) : t \in DOMAIN node.members}

\* C8: the mutation of string never yields a string, of number never a
\* number, of boolean never a boolean while it can yield "true", "false",
\* "0" and "1", and of literal(values) never one of values.
C8_LeafNeverTargetKind ==
  /\ (node.kind = "string" /\ src = "mutation") => kindOf(sample) # "string"
  /\ (node.kind = "number" /\ src = "mutation") => kindOf(sample) # "number"
  /\ (node.kind = "boolean" /\ src = "mutation") => kindOf(sample) # "boolean"
  /\ node.kind = "boolean"
       => {Str("true"), Str("false"), Str("0"), Str("1")} \subseteq pairOf(node).mutation
  /\ (node.kind = "literal" /\ src = "mutation") => sample \notin node.values

\* C8 witness: the mutation of boolean yields the string "true".
C8_Witness ==
  /\ node.kind = "boolean"
  /\ src = "mutation"
  /\ sample = Str("true")

\* C9 as stated: for partial(properties), properties non-empty, the key that
\* is corrupted is present in the drawn valid instance, so the mutation has
\* the key set of that instance.
C9_PartialKeyPresent ==
  (node.kind = "partial" /\ src = "mutation" /\ DOMAIN node.properties # {})
  => /\ nonEmpty(via.a)
     /\ payload(via.key) \in DOMAIN payload(via.a)
     /\ DOMAIN payload(sample) = DOMAIN payload(via.a)

\* C9 amended: for partial(properties), properties non-empty, the drawn valid
\* instance is non-empty and the key that is corrupted is one of the declared
\* keys, present in the instance or not: the mutation has the keys of the
\* instance and that key, holds a draw from that field's mutation there and
\* the instance's values elsewhere.
C9_PartialKeyDeclared ==
  (node.kind = "partial" /\ src = "mutation" /\ DOMAIN node.properties # {})
  => /\ via.a \in pairOf(node).arbitrary
     /\ nonEmpty(via.a)
     /\ payload(via.key) \in DOMAIN node.properties
     /\ kindOf(sample) = "object"
     /\ DOMAIN payload(sample) = DOMAIN payload(via.a) \cup {payload(via.key)}
     /\ payload(sample)[payload(via.key)] = via.m
     /\ via.m \in pairOf(node.properties[payload(via.key)]).mutation
     /\ \A k \in DOMAIN payload(sample) \ {payload(via.key)} : payload(sample)[k] = payload(via.a)[k]

\* C9 witness: a mutation of a partial whose corrupted key is absent from
\* the drawn valid instance.
C9_Witness ==
  /\ node.kind = "partial"
  /\ src = "mutation"
  /\ DOMAIN node.properties # {}
  /\ payload(via.key) \notin DOMAIN payload(via.a)
  /\ payload(via.key) \in DOMAIN payload(sample)

\* a type or partial node with no declared field, or a tuple of no component
degenerate(s) ==
  \/ s.kind \in {"type", "partial"} /\ DOMAIN s.properties = {}
  \/ s.kind = "tuple" /\ Len(s.components) = 0

====
